---- MODULE Spec2Model ----
(***************************************************************************)
(* Format converter (JSON / YAML / XML): the XML tree codec of             *)
(* parsers/xml_parser.py, the JSON and YAML loaders, and the command-line  *)
(* driver of main.py, as a state machine over one file system.             *)
(*                                                                         *)
(* Python objects are tuples <<tag, payload>>:                             *)
(*   None  <<"null", <<>>>>      True   <<"bool", TRUE>>                    *)
(*   1     <<"num", 1>>          "hi"   <<"str", <<"h","i">>>>              *)
(*   [..]  <<"seq", <<v1, ..>>>> {k:v}  <<"map", << <<k, v>>, .. >>>>       *)
(* A str is the sequence of its characters, so that strip(), startswith()  *)
(* and "@" + name are computed and not assumed.  A dict keeps insertion    *)
(* order, as Python's does.                                                *)
(***************************************************************************)
EXTENDS Integers, Sequences, FiniteSets, TLC

\* ------------------------------------------------------------ Python values

Null == <<"null", <<>> >>
Bool(b) == <<"bool", b>>
Num(n) == <<"num", n>>
Str(s) == <<"str", s>>
List(items) == <<"seq", items>>
Dict(entries) == <<"map", entries>>
Tag(v) == v[1]
Pay(v) == v[2]

IsDict(v) == Tag(v) = "map"
IsList(v) == Tag(v) = "seq"
IsStr(v) == Tag(v) = "str"

\* An exception raised instead of a value; Ok wraps a returned object that
\* is not one of the tagged values above (an Element)
Exc(kind) == <<"exc", kind>>
IsExc(v) == Tag(v) = "exc"
Ok(x) == <<"ok", x>>

Range(s) == {s[i] : i \in 1..Len(s)}

\* ------------------------------------------------------------ str methods

Whitespace == {" ", "\n", "\t"}

RECURSIVE lstrip(_)
lstrip(s) ==
    IF s # <<>> /\ Head(s) \in Whitespace THEN lstrip(Tail(s)) ELSE s

RECURSIVE rstrip(_)
rstrip(s) ==
    IF s # <<>> /\ s[Len(s)] \in Whitespace
    THEN rstrip(SubSeq(s, 1, Len(s) - 1))
    ELSE s

\* str.strip()
strip(s) == rstrip(lstrip(s))

\* k.startswith('@')
startswith(k, c) == Len(Pay(k)) > 0 /\ Pay(k)[1] = c

Digits == <<"0", "1", "2", "3", "4", "5", "6", "7", "8", "9">>

RECURSIVE NatStr(_)
NatStr(n) ==
    IF n < 10 THEN <<Digits[n + 1]>>
    ELSE NatStr(n \div 10) \o <<Digits[(n % 10) + 1]>>

\* str(value) of a scalar
PyStr(v) ==
    CASE Tag(v) = "str" -> Pay(v)
      [] Tag(v) = "null" -> <<"N", "o", "n", "e">>
      [] Tag(v) = "bool" ->
            IF Pay(v) THEN <<"T", "r", "u", "e">>
            ELSE <<"F", "a", "l", "s", "e">>
      [] Tag(v) = "num" ->
            IF Pay(v) < 0 THEN <<"-">> \o NatStr(0 - Pay(v))
            ELSE NatStr(Pay(v))

\* ------------------------------------------------------------ dict methods

\* key in d
DictHas(d, k) == \E i \in 1..Len(d) : d[i][1] = k

\* d[key]
DictGet(d, k) == d[CHOOSE i \in 1..Len(d) : d[i][1] = k][2]

\* d[key] = value: an existing key keeps its place, a new key goes last
DictSet(d, k, v) ==
    IF DictHas(d, k)
    THEN [i \in 1..Len(d) |-> IF d[i][1] = k THEN <<k, v>> ELSE d[i]]
    ELSE Append(d, <<k, v>>)

\* d.update(other)
RECURSIVE DictUpdate(_, _)
DictUpdate(d, other) ==
    IF other = <<>> THEN d
    ELSE DictUpdate(DictSet(d, Head(other)[1], Head(other)[2]), Tail(other))

\* a == b on Python values: dicts compare without regard to order, and
\* True == 1, False == 0
RECURSIVE PyEq(_, _)
PyEq(a, b) ==
    CASE Tag(a) = "map" /\ Tag(b) = "map" ->
            /\ Len(Pay(a)) = Len(Pay(b))
            /\ \A i \in 1..Len(Pay(a)) :
                  /\ DictHas(Pay(b), Pay(a)[i][1])
                  /\ PyEq(Pay(a)[i][2], DictGet(Pay(b), Pay(a)[i][1]))
      [] Tag(a) = "seq" /\ Tag(b) = "seq" ->
            /\ Len(Pay(a)) = Len(Pay(b))
            /\ \A i \in 1..Len(Pay(a)) : PyEq(Pay(a)[i], Pay(b)[i])
      [] Tag(a) = "bool" /\ Tag(b) = "num" ->
            Pay(b) = (IF Pay(a) THEN 1 ELSE 0)
      [] Tag(a) = "num" /\ Tag(b) = "bool" ->
            Pay(a) = (IF Pay(b) THEN 1 ELSE 0)
      [] OTHER -> a = b

\* ------------------------------------------------------------ ET.Element

\* tag: a str (or whatever object a dict key was); attrib: name/value pairs
\* in document order; text: None or a str; children in document order
Element(tag, attrib, text, children) ==
    [tag |-> tag, attrib |-> attrib, text |-> text, children |-> children]

AtSign == "@"
HashText == Str(<<"#", "t", "e", "x", "t">>)
ItemTag == Str(<<"i", "t", "e", "m">>)
RootTag == Str(<<"r", "o", "o", "t">>)
DataKey == Str(<<"d", "a", "t", "a">>)

\* AttribEntries without the "@" in front of the attribute's name
RECURSIVE AttribEntriesBare(_, _)
AttribEntriesBare(result, attrib) ==
    IF attrib = <<>> THEN result
    ELSE AttribEntriesBare(
            DictSet(result, Str(Head(attrib)[1]), Str(Head(attrib)[2])),
            Tail(attrib))

\* result[f"@{attr}"] = value, for every attribute
RECURSIVE AttribEntries(_, _)
AttribEntries(result, attrib) ==
    IF attrib = <<>> THEN result
    ELSE AttribEntries(
            DictSet(result, Str(<<AtSign>> \o Head(attrib)[1]), Str(Head(attrib)[2])),
            Tail(attrib))

\* element.text and element.text.strip()
HasText(element) ==
    /\ Tag(element.text) = "str"
    /\ Pay(element.text) # <<>>
    /\ strip(Pay(element.text)) # <<>>

\* the keys of result that are attributes or '#text'
SpecialKey(k) == startswith(k, AtSign) \/ k = HashText

RECURSIVE element_to_dict(_)
RECURSIVE GroupChildren(_, _)

RECURSIVE GroupChildrenLastWins(_, _)

\* GroupChildren with plain dict assignment: a tag seen again replaces
\* its entry
GroupChildrenLastWins(children, rest) ==
    IF rest = <<>> THEN children
    ELSE LET child == Head(rest)
         IN  GroupChildrenLastWins(
                DictSet(children, child.tag, element_to_dict(child)), Tail(rest))

\* the loop over the child elements: a tag seen again turns its entry into
\* a list and appends to it
GroupChildren(children, rest) ==
    IF rest = <<>> THEN children
    ELSE LET child == Head(rest)
             child_data == element_to_dict(child)
             next ==
                IF DictHas(children, child.tag)
                THEN LET cur == DictGet(children, child.tag)
                         lst == IF ~IsList(cur) THEN <<cur>> ELSE Pay(cur)
                     IN  DictSet(children, child.tag, List(Append(lst, child_data)))
                ELSE DictSet(children, child.tag, child_data)
         IN  GroupChildren(next, Tail(rest))

\* Collapses without the test that the value is not a list
CollapsesLists(element, result) ==
    /\ Len(result) = 1
    /\ ~\E i \in 1..Len(result) : SpecialKey(result[i][1])
    /\ element.attrib = <<>>

\* Collapses with the list test turned around
CollapsesListsOnly(element, result) ==
    /\ Len(result) = 1
    /\ ~\E i \in 1..Len(result) : SpecialKey(result[i][1])
    /\ element.attrib = <<>>
    /\ IsList(result[1][2])

\* Collapses with the length test off by one: any non-empty result
CollapsesNonEmpty(element, result) ==
    /\ Len(result) >= 1
    /\ ~\E i \in 1..Len(result) : SpecialKey(result[i][1])
    /\ element.attrib = <<>>
    /\ ~IsList(result[1][2])

\* Collapses with the length test turned around
CollapsesWhenMany(element, result) ==
    /\ Len(result) > 1
    /\ ~\E i \in 1..Len(result) : SpecialKey(result[i][1])
    /\ element.attrib = <<>>
    /\ ~IsList(result[1][2])

\* whether the one-entry result is returned as its value
Collapses(element, result) ==
    /\ Len(result) = 1
    /\ ~\E i \in 1..Len(result) : SpecialKey(result[i][1])
    /\ element.attrib = <<>>
    /\ ~IsList(result[1][2])

\* XMLParser._element_to_dict
element_to_dict(element) ==
    LET attrs == AttribEntries(<<>>, element.attrib)
    IN  IF HasText(element) /\ Len(element.children) = 0 /\ element.attrib = <<>>
        THEN Str(strip(Pay(element.text)))
        ELSE LET withText ==
                    IF HasText(element)
                    THEN DictSet(attrs, HashText, Str(strip(Pay(element.text))))
                    ELSE attrs
                 result == DictUpdate(withText, GroupChildren(<<>>, element.children))
             IN  IF Collapses(element, result) THEN result[1][2]
                 ELSE IF result # <<>> THEN Dict(result)
                 ELSE Null

\* _build_element of XMLParser._dict_to_element
RECURSIVE build_element(_, _)
build_element(key, value) ==
    IF IsDict(value)
    THEN Element(key, <<>>, Null,
            [i \in 1..Len(Pay(value)) |->
                build_element(Pay(value)[i][1], Pay(value)[i][2])])
    ELSE IF IsList(value)
    THEN Element(key, <<>>, Null,
            [i \in 1..Len(Pay(value)) |-> build_element(ItemTag, Pay(value)[i])])
    ELSE Element(key, <<>>, Str(PyStr(value)), <<>>)

\* XMLParser._dict_to_element: Ok(root element); data.items() raises on
\* anything but a dict
dict_to_element(data, root_tag) ==
    IF ~IsDict(data) THEN Exc("AttributeError")
    ELSE Ok(Element(root_tag, <<>>, Null,
            [i \in 1..Len(Pay(data)) |->
                build_element(Pay(data)[i][1], Pay(data)[i][2])]))

\* ------------------------------------------------------------ files

\* What a path holds: <<"xml", root>> is the text of an XML document with
\* that element tree, <<"json", v>> and <<"yaml", v>> the text of a JSON or
\* YAML document denoting v, Garbage a text no parser accepts, XmlDeclOnly
\* the XML declaration line and nothing after it, Previous whatever the
\* output path held (or did not hold) before the run.
XmlText(root) == <<"xml", root>>
JsonText(v) == <<"json", v>>
YamlText(v) == <<"yaml", v>>
Garbage == <<"garbage", <<>> >>
XmlDeclOnly == <<"xmldecl", <<>> >>
Previous == <<"prev", <<>> >>
NoData == <<"nodata", <<>> >>

LowerLetters ==
    <<"a", "b", "c", "d", "e", "f", "g", "h", "i", "j", "k", "l", "m",
      "n", "o", "p", "q", "r", "s", "t", "u", "v", "w", "x", "y", "z">>
UpperLetters ==
    <<"A", "B", "C", "D", "E", "F", "G", "H", "I", "J", "K", "L", "M",
      "N", "O", "P", "Q", "R", "S", "T", "U", "V", "W", "X", "Y", "Z">>

\* str.lower()
lower(s) ==
    [i \in 1..Len(s) |->
        IF \E j \in 1..Len(UpperLetters) : UpperLetters[j] = s[i]
        THEN LowerLetters[CHOOSE j \in 1..Len(UpperLetters) : UpperLetters[j] = s[i]]
        ELSE s[i]]

\* the names the XML parser accepts as a tag
NameStartChars == Range(LowerLetters) \cup Range(UpperLetters) \cup {"_", ":"}
NameChars == NameStartChars \cup Range(Digits) \cup {"-", "."}

IsXmlName(tag) ==
    /\ IsStr(tag)
    /\ Pay(tag) # <<>>
    /\ Pay(tag)[1] \in NameStartChars
    /\ \A i \in 1..Len(Pay(tag)) : Pay(tag)[i] \in NameChars

RECURSIVE WellFormed(_)
WellFormed(e) ==
    /\ IsXmlName(e.tag)
    /\ \A i \in 1..Len(e.children) : WellFormed(e.children[i])

\* the tree the parser builds from a written tree: an element written
\* with empty text is read with no text
RECURSIVE ParsedTree(_)
ParsedTree(e) ==
    Element(e.tag, e.attrib,
            IF e.text = Str(<<>>) THEN Null ELSE e.text,
            [i \in 1..Len(e.children) |-> ParsedTree(e.children[i])])

\* ET.parse(file_path).getroot(): Ok(root), or the exception it raises
ET_parse(file) ==
    CASE file.kind = "absent" -> Exc("FileNotFoundError")
      [] file.kind = "noread" -> Exc("PermissionError")
      [] file.kind = "dir" -> Exc("IsADirectoryError")
      [] Tag(file.content) = "xml" /\ WellFormed(Pay(file.content)) ->
            Ok(ParsedTree(Pay(file.content)))
      [] OTHER -> Exc("ParseError")

\* the except clauses shared by the three load methods and by save
Reraised(kind) ==
    IF kind \in {"FileNotFoundError", "PermissionError"} THEN kind ELSE "ValueError"

\* XMLParser.load
XMLParser_load(file) ==
    LET tree == ET_parse(file)
        root == Pay(tree)
    IN  IF IsExc(tree) THEN Exc(Reraised(Pay(tree)))
        ELSE LET loaded == element_to_dict(root)
             IN  IF Pay(root.tag) # <<>> THEN Dict(<< <<root.tag, loaded>> >>)
                 ELSE IF IsDict(loaded) THEN loaded
                 ELSE Dict(<< <<DataKey, loaded>> >>)

\* open(file_path) followed by json.load / yaml.safe_load
ReadDocument(file, syntaxes) ==
    CASE file.kind = "absent" -> Exc("FileNotFoundError")
      [] file.kind = "noread" -> Exc("PermissionError")
      [] file.kind = "dir" -> Exc("IsADirectoryError")
      [] Tag(file.content) \in syntaxes -> Pay(file.content)
      [] OTHER -> Exc("DecodeError")

\* WrapData without the wrapping
WrapDataNever(loaded_data) == loaded_data

\* the wrapping of a top-level value that is not a dict
WrapData(loaded_data) ==
    IF ~IsDict(loaded_data) THEN Dict(<< <<DataKey, loaded_data>> >>)
    ELSE loaded_data

\* JSONParser.load
JSONParser_load(file) ==
    LET loaded_data == ReadDocument(file, {"json"})
    IN  IF IsExc(loaded_data) THEN Exc(Reraised(Pay(loaded_data)))
        ELSE WrapData(loaded_data)

\* YAMLParser.load
YAMLParser_load(file) ==
    LET loaded_data == ReadDocument(file, {"yaml", "json"})
    IN  IF IsExc(loaded_data) THEN Exc(Reraised(Pay(loaded_data)))
        ELSE WrapData(loaded_data)

\* ET.indent(tree, space="  ", level=0): an element with children whose
\* text is missing or blank gets a newline and its children's indentation
RECURSIVE Spaces(_)
Spaces(n) == IF n = 0 THEN <<>> ELSE <<" ", " ">> \o Spaces(n - 1)

RECURSIVE indent_children(_, _)
indent_children(elem, level) ==
    IF Len(elem.children) = 0 THEN elem
    ELSE Element(elem.tag, elem.attrib,
            IF ~IsStr(elem.text) \/ strip(Pay(elem.text)) = <<>>
            THEN Str(<<"\n">> \o Spaces(level + 1))
            ELSE elem.text,
            [i \in 1..Len(elem.children) |->
                indent_children(elem.children[i], level + 1)])

\* whether tree.write can serialize the tree: every tag must be a str
RECURSIVE Serializable(_)
Serializable(e) ==
    /\ IsStr(e.tag)
    /\ \A i \in 1..Len(e.children) : Serializable(e.children[i])

\* The outcome of a save: the exception raised ("" for none), what the
\* output path holds afterwards, and the changes made on the output side.
SaveResult(raised, content, effects) ==
    [exc |-> raised, out |-> content, effects |-> effects]

\* file_path.parent.mkdir(parents=True, exist_ok=True) in the directory
\* state env: "" or the exception
Mkdir(env) ==
    CASE env = "noperm_dir" -> "PermissionError"
      [] env = "parent_is_file" -> "FileExistsError"
      [] OTHER -> ""

MkdirEffects(env) == IF env = "nodir" THEN {"mkdir"} ELSE {}

\* XMLParser.save
XMLParser_save(value, env, old) ==
    LET made == MkdirEffects(env)
        built == dict_to_element(value, RootTag)
        root_element == Pay(built)
    IN  IF Mkdir(env) # "" THEN SaveResult(Reraised(Mkdir(env)), old, {})
        ELSE IF IsExc(built)
        THEN SaveResult(Reraised(Pay(built)), old, made)
        ELSE IF env = "noperm_file" THEN SaveResult("PermissionError", old, made)
        ELSE IF ~Serializable(root_element)
        THEN SaveResult(Reraised("TypeError"), XmlDeclOnly, made \cup {"truncate"})
        ELSE SaveResult("", XmlText(indent_children(root_element, 0)),
                        made \cup {"truncate", "write"})

\* JSONParser.save and YAMLParser.save: the value written as one document
TextSave(syntax, value, env, old) ==
    IF Mkdir(env) # "" THEN SaveResult(Reraised(Mkdir(env)), old, {})
    ELSE IF env = "noperm_file"
    THEN SaveResult("PermissionError", old, MkdirEffects(env))
    ELSE SaveResult("", <<syntax, value>>,
                    MkdirEffects(env) \cup {"truncate", "write"})

JSONParser_save(value, env, old) == TextSave("json", value, env, old)

YAMLParser_save(value, env, old) == TextSave("yaml", value, env, old)

\* ------------------------------------------------------------ inputs

\* bounds of the documents the driver is started on
MaxKids == 2
MaxItems == 3
\* the number of conversions run one after the other, each reading what
\* the one before wrote
MaxRuns == 2

Chars(c) == Str(<<c>>)

\* Seq-valued operators over small sets
SeqsUpTo(S, n) == UNION {[1..k -> S] : k \in 0..n}

IdAttrib == << <<<<"i", "d">>, <<"7">>>> >>
TwoAttribs == << <<<<"i", "d">>, <<"7">>>>, <<<<"n">>, <<"x">>>> >>

KidElements ==
    {Element(tag, <<>>, text, <<>>) :
        tag \in {Chars("b"), ItemTag},
        text \in {Null, Chars("1"), Str(<<" ", "2", "\n">>)}}

FlatDocuments ==
    {Element(tag, attrib, text, kids) :
        tag \in {Chars("a"), RootTag},
        attrib \in {<<>>, IdAttrib},
        text \in {Null, Str(<<"\n", " ">>), Str(<<" ", "h", "i", " ">>)},
        kids \in SeqsUpTo(KidElements, MaxKids)}

Leaf(tag, text) == Element(tag, <<>>, text, <<>>)

\* the documents of the specification's worked examples, and documents one
\* level deeper than FlatDocuments
ExampleDocuments ==
    { Element(Chars("a"), <<>>, Null, <<Leaf(Chars("b"), Chars("5"))>>),
      Element(Chars("a"), <<>>, Null,
              <<Leaf(ItemTag, Chars("1")), Leaf(ItemTag, Chars("2"))>>),
      Element(Chars("a"), IdAttrib, Str(<<"h", "i">>), <<>>),
      Element(Chars("a"), TwoAttribs, Str(<<"h", "i">>), <<>>),
      Element(RootTag, <<>>, Chars("5"), <<>>),
      Element(Chars("a"), <<>>, Null,
              <<Element(Chars("b"), IdAttrib, Str(<<"h", "i">>), <<>>)>>),
      Element(Chars("a"), <<>>, Null,
              <<Element(Chars("b"), <<>>, Null,
                        <<Leaf(Chars("c"), Chars("1")), Leaf(Chars("c"), Chars("2"))>>)>>),
      Element(Chars("a"), <<>>, Null,
              <<Element(Chars("b"), <<>>, Null,
                        <<Leaf(Chars("c"), Chars("1")), Leaf(Chars("c"), Chars("2"))>>),
                Leaf(Chars("b"), Chars("3"))>>),
      Element(Chars("a"), <<>>, Null,
              <<Element(Chars("b"), <<>>, Null,
                        <<Leaf(Chars("c"), Chars("1")), Leaf(Chars("d"), Null)>>)>>),
      Element(Chars("a"), IdAttrib, Str(<<"h", "i">>),
              <<Leaf(Chars("b"), Null), Leaf(Chars("c"), Chars("1")),
                Leaf(Chars("b"), Chars("2"))>>),
      Element(Chars("a"), <<>>, Null,
              <<Leaf(Chars("c"), Chars("1")), Leaf(Chars("b"), Null),
                Leaf(Chars("c"), Null), Leaf(Chars("c"), Chars("2"))>>) }

XmlDocuments == FlatDocuments \cup ExampleDocuments

Scalars == {Null, Bool(TRUE), Num(1), Num(12), Str(<<"h", "i">>), Str(<<>>)}

\* [1, 2, .., n]
Counting(n) == List([i \in 1..n |-> Num(i)])

Lists == {Counting(n) : n \in 0..MaxItems}
                \cup {List(<<Null, Dict(<< <<Chars("y"), Num(1)>> >>)>>)}

InnerValues == Scalars \cup Lists \cup {Dict(<< <<Chars("y"), v>> >>) : v \in {Num(1), Null}}

Mappings ==
    {Dict(<< <<Chars("x"), v>> >>) : v \in InnerValues}
        \cup {Dict(<< <<Chars("x"), v>>, <<Chars("y"), w>> >>) :
                v \in {Num(1), Null, Counting(2)}, w \in {Str(<<"h", "i">>), Counting(1)}}
        \cup {Dict(<<>>)}

\* the values a JSON document denotes
JsonValues == Mappings \cup Scalars \cup Lists

\* YAML also lets a mapping key be a number
YamlValues == JsonValues \cup {Dict(<< <<Num(1), Chars("a")>> >>)}

File(ext, kind, content) == [ext |-> ext, kind |-> kind, content |-> content]

DotXml == <<".", "x", "m", "l">>
DotJson == <<".", "j", "s", "o", "n">>
DotYaml == <<".", "y", "a", "m", "l">>
DotYml == <<".", "y", "m", "l">>
DotTxt == <<".", "t", "x", "t">>
DotXmlUpper == <<".", "X", "M", "L">>

Extensions == {DotXml, DotJson, DotYaml, DotYml, DotTxt, DotXmlUpper}

Formats == {"json", "yaml", "xml"}

\* the input paths a run is started on
InputFiles ==
    {File(ext, kind, Garbage) : ext \in Extensions, kind \in {"absent", "dir", "noread"}}
        \cup {File(ext, "file", Garbage) : ext \in Extensions}
        \cup {File(DotXml, "file", XmlText(e)) : e \in XmlDocuments}
        \cup {File(ext, "file", XmlText(e)) :
                ext \in {DotXmlUpper, DotTxt}, e \in ExampleDocuments}
        \cup {File(DotJson, "file", JsonText(v)) : v \in JsonValues}
        \cup {File(ext, "file", YamlText(v)) : ext \in {DotYaml, DotYml}, v \in YamlValues}

\* the state of the output path's directory: "ok" it exists and the file
\* can be written, "nodir" it does not exist and can be created,
\* "noperm_dir" it does not exist and cannot be created, "parent_is_file"
\* the parent path is a regular file, "noperm_file" the file cannot be
\* opened for writing
OutputStates == {"ok", "nodir", "noperm_dir", "parent_is_file", "noperm_file"}

\* ------------------------------------------------------------ main.py

\* detect_input_format with a fallback to XML in place of 'unknown'
detect_input_format_guessing(ext) ==
    LET extension == lower(ext)
    IN  CASE extension = DotJson -> "json"
          [] extension = DotYaml -> "yaml"
          [] extension = DotYml -> "yaml"
          [] OTHER -> "xml"

\* detect_input_format
detect_input_format(ext) ==
    LET extension == lower(ext)
    IN  CASE extension = DotJson -> "json"
          [] extension = DotYaml -> "yaml"
          [] extension = DotYml -> "yaml"
          [] extension = DotXml -> "xml"
          [] OTHER -> "unknown"

\* the extension of the path a run writes, by its format
OutputExtension(format) ==
    CASE format = "json" -> DotJson
      [] format = "yaml" -> DotYaml
      [] OTHER -> DotXml

\* validate_files without its check that the input exists
validate_files_unchecked(input, env) ==
    IF input.kind = "dir" THEN "ValueError"
    ELSE Mkdir(env)

\* validate_files: "" or the exception it raises
validate_files(input, env) ==
    IF input.kind = "absent" THEN "FileNotFoundError"
    ELSE IF input.kind = "dir" THEN "ValueError"
    ELSE Mkdir(env)

\* the except clause of main
MainCatches == {"FileNotFoundError", "ValueError", "PermissionError"}

\* the load call main makes for a detected format
LoadAs(format, file) ==
    CASE format = "json" -> JSONParser_load(file)
      [] format = "yaml" -> YAMLParser_load(file)
      [] OTHER -> XMLParser_load(file)

\* the save call main makes for --format
SaveAs(format, value, env, old) ==
    CASE format = "json" -> JSONParser_save(value, env, old)
      [] format = "yaml" -> YAMLParser_save(value, env, old)
      [] OTHER -> XMLParser_save(value, env, old)

VARIABLES
    pc,             \* where main is: "validate", "detect", "load", "save",
                    \* "done" (returned), "exit1" (error printed, exit
                    \* status 1), "traceback" (an exception left main)
    run,            \* the number of this conversion
    inp,            \* the input path: extension, kind, content
    fmt,            \* --format
    outEnv,         \* the state of the output path's directory
    out,            \* what the output path holds
    touched,        \* the changes this run made on the output side
    input_format,   \* what detect_input_format returned
    data,           \* the value load returned
    exc,            \* the exception raised, "" for none
    hist,           \* the earlier conversions: format read, format
                    \* written, value loaded
    signals,        \* the signals the current ConversionWorker emitted
    queue,          \* emitted signals the GUI thread has not handled yet
    button,         \* convert_btn is enabled
    dialog,         \* the modal message box on screen, "" for none
    inflight        \* worker threads started and not yet returned

guiVars == <<signals, queue, button, dialog, inflight>>

vars == <<pc, run, inp, fmt, outEnv, out, touched, input_format, data, exc, hist,
          signals, queue, button, dialog, inflight>>

Init ==
    /\ pc = "validate"
    /\ run = 1
    /\ inp \in InputFiles
    /\ fmt \in Formats
    /\ outEnv \in OutputStates
    /\ out = Previous
    /\ touched = {}
    /\ input_format = ""
    /\ data = NoData
    /\ exc = ""
    /\ hist = <<>>
    /\ signals = <<>>
    /\ queue = <<>>
    /\ button = TRUE
    /\ dialog = ""
    /\ inflight = 0

\* an exception raised inside main's try block
Raise(kind) ==
    /\ exc' = kind
    /\ pc' = IF kind \in MainCatches THEN "exit1" ELSE "traceback"

\* validate_files(input_path, output_path)
ValidateFiles ==
    /\ pc = "validate"
    /\ IF validate_files(inp, outEnv) # ""
       THEN /\ Raise(validate_files(inp, outEnv))
            /\ UNCHANGED <<outEnv, touched>>
       ELSE /\ pc' = "detect"
            /\ outEnv' = IF outEnv = "nodir" THEN "ok" ELSE outEnv
            /\ touched' = touched \cup MkdirEffects(outEnv)
            /\ UNCHANGED exc
    /\ UNCHANGED <<run, inp, fmt, out, input_format, data, hist>>
    /\ UNCHANGED guiVars

\* input_format = detect_input_format(input_path), and the check for 'unknown'
DetectFormat ==
    /\ pc = "detect"
    /\ input_format' = detect_input_format(inp.ext)
    /\ IF input_format' = "unknown"
       THEN Raise("ValueError")
       ELSE pc' = "load" /\ UNCHANGED exc
    /\ UNCHANGED <<run, inp, fmt, outEnv, out, touched, data, hist>>
    /\ UNCHANGED guiVars

\* data = <Parser>.load(input_path)
Load ==
    /\ pc = "load"
    /\ LET loaded == LoadAs(input_format, inp)
       IN  IF IsExc(loaded)
           THEN Raise(Pay(loaded)) /\ UNCHANGED data
           ELSE data' = loaded /\ pc' = "save" /\ UNCHANGED exc
    /\ UNCHANGED <<run, inp, fmt, outEnv, out, touched, input_format, hist>>
    /\ UNCHANGED guiVars

\* <Parser>.save(data, output_path)
Save ==
    /\ pc = "save"
    /\ LET saved == SaveAs(fmt, data, outEnv, out)
       IN  /\ out' = saved.out
           /\ touched' = touched \cup saved.effects
           /\ IF saved.exc # ""
              THEN Raise(saved.exc)
              ELSE pc' = "done" /\ UNCHANGED exc
    /\ UNCHANGED <<run, inp, fmt, outEnv, input_format, data, hist>>
    /\ UNCHANGED guiVars

\* the converter is started again on the file the last run wrote
NextRun ==
    /\ pc = "done"
    /\ run < MaxRuns
    /\ run' = run + 1
    /\ hist' = Append(hist, [read |-> input_format, written |-> fmt, data |-> data])
    /\ inp' = File(OutputExtension(fmt), "file", out)
    /\ fmt' \in Formats
    /\ outEnv' = "ok"
    /\ out' = Previous
    /\ touched' = {}
    /\ input_format' = ""
    /\ data' = NoData
    /\ pc' = "validate"
    /\ UNCHANGED exc
    /\ UNCHANGED guiVars

Next ==
    \/ ValidateFiles
    \/ DetectFormat
    \/ Load
    \/ Save
    \/ NextRun

Spec == Init /\ [][Next]_vars

\* ------------------------------------------------------------ gui.py

\* the signals of ConversionWorker
Progress(value) == <<"progress", value>>
Finished == <<"finished", 0>>
Error == <<"error", 0>>

\* ConversionWorker._detect_format
worker_detect_format(ext) ==
    LET extension == lower(ext)
    IN  CASE extension = DotJson -> "json"
          [] extension = DotYaml -> "yaml"
          [] extension = DotYml -> "yaml"
          [] extension = DotXml -> "xml"
          [] OTHER -> "unknown"

\* the load call of ConversionWorker.run
worker_load(format, file) ==
    CASE format = "json" -> JSONParser_load(file)
      [] format = "yaml" -> YAMLParser_load(file)
      [] OTHER -> XMLParser_load(file)

\* the save call of ConversionWorker.run
worker_save(format, value, env, old) ==
    CASE format = "json" -> JSONParser_save(value, env, old)
      [] format = "yaml" -> YAMLParser_save(value, env, old)
      [] OTHER -> XMLParser_save(value, env, old)

\* the input paths the window is opened on
GuiInputFiles ==
    {File(ext, kind, Garbage) : ext \in Extensions, kind \in {"absent", "dir", "noread"}}
        \cup {File(ext, "file", Garbage) : ext \in Extensions}
        \cup {File(ext, "file", XmlText(e)) :
                ext \in {DotXml, DotXmlUpper, DotTxt}, e \in ExampleDocuments}
        \cup {File(DotJson, "file", JsonText(v)) : v \in Lists \cup {Null}}
        \cup {File(DotYaml, "file", YamlText(v)) : v \in YamlValues \ JsonValues}

InitGui ==
    /\ pc = "gui_idle"
    /\ run = 0
    /\ inp \in GuiInputFiles
    /\ fmt = ""
    /\ outEnv \in OutputStates
    /\ out = Previous
    /\ touched = {}
    /\ input_format = ""
    /\ data = NoData
    /\ exc = ""
    /\ hist = <<>>
    /\ signals = <<>>
    /\ queue = <<>>
    /\ button = TRUE
    /\ dialog = ""
    /\ inflight = 0

\* signal.emit(..) for each of sigs, in order
Emit(sigs) ==
    /\ signals' = signals \o sigs
    /\ queue' = queue \o sigs

\* the worker's run ended with the last signal emitted
LastSignal == IF signals = <<>> THEN "" ELSE signals[Len(signals)][1]

\* CanClick for a button that is never disabled
CanClickAnytime ==
    /\ pc \in {"gui_idle", "run_start", "run_load", "run_save", "run_end"}
    /\ dialog = ""

\* the window of FormatConverterGUI is open, with or without a worker
Window == pc \in {"gui_idle", "run_start", "run_load", "run_save", "run_end"}

\* a click on convert_btn reaches start_conversion: the button is enabled
\* and no modal message box is in front of the window
CanClick == Window /\ button /\ dialog = ""

\* FormatConverterGUI.start_conversion, with output_format the combo box's
\* text; the input is the file the last conversion wrote, when it wrote
\* one, and the same input again otherwise
StartConversion ==
    /\ CanClick
    /\ run < MaxRuns
    /\ \E output_format \in Formats :
        LET again == LastSignal # "finished"
            input_file == IF again THEN inp
                          ELSE File(OutputExtension(fmt), "file", out)
        IN  IF input_file.kind = "absent"
            THEN /\ dialog' = "invalid"
                 /\ UNCHANGED <<pc, run, inp, fmt, outEnv, out, touched,
                                input_format, data, exc, hist, signals, queue,
                                button, inflight>>
            ELSE /\ inp' = input_file
                 /\ fmt' = output_format
                 /\ run' = run + 1
                 /\ hist' = IF again THEN hist
                            ELSE Append(hist, [read |-> input_format,
                                               written |-> fmt, data |-> data])
                 /\ outEnv' = IF again THEN outEnv ELSE "ok"
                 /\ out' = Previous
                 /\ touched' = {}
                 /\ input_format' = ""
                 /\ data' = NoData
                 /\ exc' = ""
                 /\ signals' = <<>>
                 /\ button' = FALSE
                 /\ inflight' = inflight + 1
                 /\ pc' = "run_start"
                 /\ UNCHANGED <<queue, dialog>>

\* ConversionWorker.run up to the load: progress 25, _detect_format, the
\* check for 'unknown', progress 50
RunDetect ==
    /\ pc = "run_start"
    /\ input_format' = worker_detect_format(inp.ext)
    /\ IF input_format' = "unknown"
       THEN /\ Emit(<<Progress(25), Error>>)
            /\ pc' = "run_end"
            /\ inflight' = inflight - 1
       ELSE /\ Emit(<<Progress(25), Progress(50)>>)
            /\ pc' = "run_load"
            /\ UNCHANGED inflight
    /\ UNCHANGED <<run, inp, fmt, outEnv, out, touched, data, exc, hist,
                   button, dialog>>

\* ConversionWorker.run: the load, then progress 75, or the except clause
RunLoad ==
    /\ pc = "run_load"
    /\ LET loaded == worker_load(input_format, inp)
       IN  IF IsExc(loaded)
           THEN /\ exc' = Pay(loaded)
                /\ Emit(<<Error>>)
                /\ pc' = "run_end"
                /\ inflight' = inflight - 1
                /\ UNCHANGED data
           ELSE /\ data' = loaded
                /\ Emit(<<Progress(75)>>)
                /\ pc' = "run_save"
                /\ UNCHANGED <<exc, inflight>>
    /\ UNCHANGED <<run, inp, fmt, outEnv, out, touched, input_format, hist,
                   button, dialog>>

\* ConversionWorker.run: the save, then progress 100 and finished, or the
\* except clause
RunSave ==
    /\ pc = "run_save"
    /\ LET saved == worker_save(fmt, data, outEnv, out)
       IN  /\ out' = saved.out
           /\ touched' = touched \cup saved.effects
           /\ outEnv' = IF "mkdir" \in saved.effects THEN "ok" ELSE outEnv
           /\ exc' = saved.exc
           /\ IF saved.exc # ""
              THEN Emit(<<Error>>)
              ELSE Emit(<<Progress(100), Finished>>)
    /\ pc' = "run_end"
    /\ inflight' = inflight - 1
    /\ UNCHANGED <<run, inp, fmt, input_format, data, hist, button, dialog>>

\* the GUI thread takes the next queued signal: update_progress, or
\* on_conversion_finished / on_conversion_error up to the message box
HandleSignal ==
    /\ queue # <<>>
    /\ queue' = Tail(queue)
    /\ dialog' = CASE Head(queue)[1] = "finished" -> "success"
                   [] Head(queue)[1] = "error" -> "error"
                   [] OTHER -> dialog
    /\ UNCHANGED <<pc, run, inp, fmt, outEnv, out, touched, input_format, data,
                   exc, hist, signals, button, inflight>>

\* the message box is closed; after show_success / show_error the handler
\* goes on to reset_ui
CloseDialog ==
    /\ dialog # ""
    /\ dialog' = ""
    /\ button' = IF dialog \in {"success", "error"} THEN TRUE ELSE button
    /\ UNCHANGED <<pc, run, inp, fmt, outEnv, out, touched, input_format, data,
                   exc, hist, signals, queue, inflight>>

NextGui ==
    \/ StartConversion
    \/ RunDetect
    \/ RunLoad
    \/ RunSave
    \/ HandleSignal
    \/ CloseDialog

\* a step of the started worker thread. RunDetect, RunLoad and RunSave
\* are the steps that move pc on from a position inside run, and each can
\* be taken whenever pc is at its position; the first disjunct states
\* that enabling condition without computing what the step loads or saves
WorkerStep ==
    /\ pc \in {"run_start", "run_load", "run_save"}
    /\ pc' \in {"run_load", "run_save", "run_end"}
    /\ pc' # pc
    /\ \/ UNCHANGED <<run, inp, fmt, outEnv, out, touched, input_format, data,
                      exc, hist, signals, queue, button, dialog, inflight>>
       \/ RunDetect
       \/ RunLoad
       \/ RunSave

\* the window and its worker thread: a started thread runs on to the end
\* of run, the event loop delivers queued signals, and a message box on
\* screen gets closed
SpecGui ==
    /\ InitGui
    /\ [][NextGui]_vars
    /\ WF_vars(WorkerStep)
    /\ WF_vars(HandleSignal)
    /\ WF_vars(CloseDialog)

\* either front end
InitBoth == Init \/ InitGui

NextBoth == Next \/ NextGui

SpecBoth == InitBoth /\ [][NextBoth]_vars

\* ------------------------------------------------------------ properties

\* a load has returned in this run
Loaded == pc \in {"save", "done", "exit1", "traceback"} /\ data # NoData

\* the root element the XML parser handed to _element_to_dict in this run
ParsedRoot == Pay(ET_parse(inp))

LoadedXml == Loaded /\ input_format = "xml"

RECURSIVE Subelements(_)
Subelements(e) ==
    {e} \cup UNION {Subelements(e.children[i]) : i \in 1..Len(e.children)}

ChildValues(e) == [i \in 1..Len(e.children) |-> element_to_dict(e.children[i])]

\* t is s without its leading and trailing whitespace, said without strip()
IsTrimOf(t, s) ==
    /\ t # <<>>
    /\ t[1] \notin Whitespace
    /\ t[Len(t)] \notin Whitespace
    /\ \E i \in 0..Len(s) :
          /\ i + Len(t) <= Len(s)
          /\ SubSeq(s, i + 1, i + Len(t)) = t
          /\ \A j \in 1..i : s[j] \in Whitespace
          /\ \A j \in (i + Len(t) + 1)..Len(s) : s[j] \in Whitespace

\* whether a value is or holds a list
RECURSIVE HoldsList(_)
HoldsList(v) ==
    \/ IsList(v)
    \/ IsDict(v) /\ \E i \in 1..Len(Pay(v)) : HoldsList(Pay(v)[i][2])

\* whether a value is or holds None
RECURSIVE HoldsNone(_)
HoldsNone(v) ==
    \/ v = Null
    \/ IsDict(v) /\ \E i \in 1..Len(Pay(v)) : HoldsNone(Pay(v)[i][2])
    \/ IsList(v) /\ \E i \in 1..Len(Pay(v)) : HoldsNone(Pay(v)[i])

\* the worked examples
ItemsDocument ==
    Element(Chars("a"), <<>>, Null,
            <<Leaf(ItemTag, Chars("1")), Leaf(ItemTag, Chars("2"))>>)
WrapperDocument == Element(Chars("a"), <<>>, Null, <<Leaf(Chars("b"), Chars("5"))>>)
AttributeDocument == Element(Chars("a"), IdAttrib, Str(<<"h", "i">>), <<>>)
XList == Dict(<< <<Chars("x"), Counting(3)>> >>)

\* C1 (as claimed): a Mapping that _element_to_dict returned for a
\* document's root, and that holds no Sequence, is returned again by
\* _element_to_dict from the tree _dict_to_element builds of it.
C1_RoundTrip ==
    LoadedXml =>
        LET v == element_to_dict(ParsedRoot)
            built == dict_to_element(v, RootTag)
        IN  (IsDict(v) /\ ~HoldsList(v)) =>
                /\ ~IsExc(built)
                /\ PyEq(element_to_dict(Pay(built)), v)

\* the run reads what a run from XML to XML wrote
SecondXmlLoad ==
    /\ run = 2
    /\ hist[1].read = "xml"
    /\ hist[1].written = "xml"
    /\ pc \in {"save", "done", "exit1", "traceback"}

\* C2 (as claimed): XMLParser.load of the file XMLParser.save wrote from a
\* loaded XML document succeeds and returns a Mapping equal to the one the
\* first load returned; stated for the documents whose value holds no
\* None, which XMLParser.save writes as they are.
C2_Idempotent ==
    (SecondXmlLoad /\ ~HoldsNone(hist[1].data))
        => (data # NoData /\ PyEq(data, hist[1].data))

\* C3 (as claimed): the JSON document {"x": [1, 2, 3]} converted to XML and
\* the XML converted back to JSON denotes a value equal to {"x": [1, 2, 3]}.
C3_MixedChain ==
    (/\ run = 2
     /\ hist[1].read = "json"
     /\ hist[1].written = "xml"
     /\ hist[1].data = XList
     /\ fmt = "json"
     /\ pc \in {"done", "exit1", "traceback"})
        => (pc = "done" /\ Tag(out) = "json" /\ PyEq(Pay(out), XList))

\* an element with no attributes, no text, and two or more children that
\* all have one tag
OneGroupOnly(e) ==
    /\ e.attrib = <<>>
    /\ ~HasText(e)
    /\ Len(e.children) >= 2
    /\ \A i \in 1..Len(e.children) : e.children[i].tag = e.children[1].tag

\* C4 (as claimed): an attribute-less element whose only children are two
\* or more elements of one tag converts to the Sequence of the children's
\* values itself, so <a><item>1</item><item>2</item></a> loads to
\* {"a": [1, 2]}.
C4_GroupFolded ==
    LoadedXml =>
        /\ \A e \in Subelements(ParsedRoot) :
              OneGroupOnly(e) => element_to_dict(e) = List(ChildValues(e))
        /\ ParsedRoot = ItemsDocument =>
              data = Dict(<< <<Chars("a"), List(<<Chars("1"), Chars("2")>>)>> >>)

\* C4 (amended): such an element converts to a one-entry Mapping that
\* keeps the group under the children's tag, as the Sequence of the
\* children's values in document order; <a><item>1</item><item>2</item></a>
\* loads to {"a": {"item": ["1", "2"]}}.
C4_GroupKept ==
    LoadedXml =>
        /\ \A e \in Subelements(ParsedRoot) :
              OneGroupOnly(e) =>
                element_to_dict(e) =
                    Dict(<< <<e.children[1].tag, List(ChildValues(e))>> >>)
        /\ ParsedRoot = ItemsDocument =>
              data = Dict(<< <<Chars("a"),
                    Dict(<< <<ItemTag, List(<<Chars("1"), Chars("2")>>)>> >>)>> >>)

C4_Witness ==
    /\ LoadedXml
    /\ ParsedRoot = ItemsDocument
    /\ IsList(Pay(Pay(data)[1][2])[1][2])

\* C5: an element with no attributes, no non-blank text and exactly one
\* child whose value is not a Sequence converts to that child's value, and
\* <a><b>5</b></a> loads to {"a": "5"}.
C5_SingleChildCollapse ==
    LoadedXml =>
        /\ \A e \in Subelements(ParsedRoot) :
              (/\ e.attrib = <<>>
               /\ ~HasText(e)
               /\ Len(e.children) = 1
               /\ ~IsList(element_to_dict(e.children[1])))
                    => element_to_dict(e) = element_to_dict(e.children[1])
        /\ ParsedRoot = WrapperDocument =>
              data = Dict(<< <<Chars("a"), Chars("5")>> >>)

C5_Witness ==
    /\ LoadedXml
    /\ ParsedRoot = WrapperDocument
    /\ data = Dict(<< <<Chars("a"), Chars("5")>> >>)

\* C6: an element with an attribute and non-blank text converts to a
\* Mapping holding "@" + name -> value for every attribute and "#text" ->
\* the trimmed text, and <a id="7">hi</a> loads to
\* {"a": {"@id": "7", "#text": "hi"}}.
C6_AttributeTextCoexist ==
    LoadedXml =>
        /\ \A e \in Subelements(ParsedRoot) :
              (e.attrib # <<>> /\ HasText(e)) =>
                LET v == element_to_dict(e)
                IN  /\ IsDict(v)
                    /\ \A i \in 1..Len(e.attrib) :
                          /\ DictHas(Pay(v), Str(<<"@">> \o e.attrib[i][1]))
                          /\ DictGet(Pay(v), Str(<<"@">> \o e.attrib[i][1]))
                                = Str(e.attrib[i][2])
                    /\ DictHas(Pay(v), HashText)
                    /\ IsStr(DictGet(Pay(v), HashText))
                    /\ IsTrimOf(Pay(DictGet(Pay(v), HashText)), Pay(e.text))
        /\ ParsedRoot = AttributeDocument =>
              data = Dict(<< <<Chars("a"),
                    Dict(<< <<Str(<<"@", "i", "d">>), Chars("7")>>,
                            <<HashText, Str(<<"h", "i">>)>> >>)>> >>)

C6_Witness ==
    /\ LoadedXml
    /\ ParsedRoot = AttributeDocument
    /\ Len(Pay(Pay(data)[1][2])) = 2

\* the top-level value of the JSON or YAML document read in this run
TopLevel == Pay(inp.content)

\* C7: the value a successful load returns is a Mapping: for an XML
\* document the one entry root tag -> converted root, for a JSON or YAML
\* document whose top-level value is not a mapping the one entry
\* "data" -> that value, and the top-level mapping itself otherwise.
C7_LoadReturnsMapping ==
    Loaded =>
        /\ IsDict(data)
        /\ input_format = "xml" =>
              /\ Len(Pay(data)) = 1
              /\ Pay(data)[1][1] = ParsedRoot.tag
              /\ Pay(data)[1][2] = element_to_dict(ParsedRoot)
        /\ input_format \in {"json", "yaml"} =>
              IF IsDict(TopLevel) THEN data = TopLevel
              ELSE data = Dict(<< <<DataKey, TopLevel>> >>)

C7_Witness ==
    /\ Loaded
    /\ input_format = "json"
    /\ IsList(TopLevel)
    /\ data = Dict(<< <<DataKey, TopLevel>> >>)

\* C8 (as claimed): in the tree XMLParser.save writes, a scalar or Null
\* value under key k is a childless element named k whose text is the
\* value's string representation, the empty string for Null.
C8_ScalarElements ==
    (pc = "done" /\ fmt = "xml") =>
        \A i \in 1..Len(Pay(data)) :
            LET k == Pay(data)[i][1]
                v == Pay(data)[i][2]
                el == Pay(out).children[i]
            IN  (~IsDict(v) /\ ~IsList(v)) =>
                    /\ el.tag = k
                    /\ Len(el.children) = 0
                    /\ el.text = Str(IF v = Null THEN <<>> ELSE PyStr(v))

\* C9 (as claimed): when XMLParser.save raises, the output path holds what
\* it held before: it was not truncated and nothing was written to it.
C9_NoPartialOutput ==
    (pc \in {"exit1", "traceback"} /\ fmt = "xml") =>
        (out = Previous /\ "truncate" \notin touched)

\* C10 (as claimed): a conversion of an input with a supported extension
\* ends with the output written by the target format's save, or with
\* one of the errors main reports; no other exception leaves main.
C10_TypedErrorsOnly ==
    detect_input_format(inp.ext) # "unknown" =>
        /\ pc # "traceback"
        /\ pc = "exit1" => exc \in MainCatches
        /\ pc = "done" => (Tag(out) = fmt /\ "write" \in touched)

\* ------------------------------------------------- the two front ends

InputMissing == inp.kind = "absent"

\* a missing input ends the command-line run in FileNotFoundError and is
\* turned away by start_conversion before a worker exists; the output
\* side is as it was
MissingInputRejected ==
    InputMissing =>
        /\ touched = {}
        /\ out = Previous
        /\ data = NoData
        /\ pc \in {"validate", "exit1", "gui_idle"}
        /\ pc = "exit1" => exc = "FileNotFoundError"
        /\ Window => (inflight = 0 /\ signals = <<>> /\ dialog \in {"", "invalid"})

\* the output file is opened only by a save that follows a load
SaveFollowsLoad == (touched \cap {"truncate", "write"} # {}) => data # NoData

\* C11 (as claimed): a missing input ends in NotFound with the output
\* path and its parent directory untouched, and in every run nothing on
\* the output side changes before the input is found and loaded.
C11_NoChangeBeforeLoad ==
    /\ MissingInputRejected
    /\ touched # {} => data # NoData

\* C11 (amended): a missing input ends in NotFound with the output path
\* and its parent directory untouched; no save step happens before the
\* input is found and loaded, and nothing on the output side changes
\* before the input is found; the window's worker changes nothing before
\* its load returned, while the command-line driver may create the
\* output's parent directory between finding the input and loading it.
C11_NoChangeBeforeFound ==
    /\ MissingInputRejected
    /\ SaveFollowsLoad
    /\ touched # {} => ~InputMissing
    /\ (Window /\ touched # {}) => data # NoData

\* the command-line run on a missing input ended in FileNotFoundError and
\* the missing parent directory of the output is still missing
C11_Witness ==
    /\ InputMissing
    /\ pc = "exit1"
    /\ exc = "FileNotFoundError"
    /\ outEnv = "nodir"
    /\ touched = {}

SupportedExtensions == {DotJson, DotYaml, DotYml, DotXml}

UnsupportedInput == lower(inp.ext) \notin SupportedExtensions

RECURSIVE FirstSeenTags(_)
FirstSeenTags(elements) ==
    IF elements = <<>> THEN <<>>
    ELSE LET n == Len(elements)
             before == FirstSeenTags(SubSeq(elements, 1, n - 1))
         IN  IF \E i \in 1..(n - 1) : elements[i].tag = elements[n].tag
             THEN before
             ELSE Append(before, elements[n].tag)

\* the children of e with the given tag, in document order
RECURSIVE WithTag(_, _)
WithTag(elements, tag) ==
    IF elements = <<>> THEN <<>>
    ELSE IF Head(elements).tag = tag
         THEN <<Head(elements)>> \o WithTag(Tail(elements), tag)
         ELSE WithTag(Tail(elements), tag)

\* what the claim has a child tag map to
GroupValue(e, tag) ==
    LET same == WithTag(e.children, tag)
    IN  IF Len(same) = 1 THEN element_to_dict(same[1])
        ELSE List([i \in 1..Len(same) |-> element_to_dict(same[i])])

\* the child entries the claim has the Mapping of e end with
ChildEntries(e) ==
    LET tags == FirstSeenTags(e.children)
    IN  [k \in 1..Len(tags) |-> <<tags[k], GroupValue(e, tags[k])>>]

\* e is a wrapper whose Mapping is never returned: no attributes, no
\* text, one child
LoneChildWrapper(e) == e.attrib = <<>> /\ ~HasText(e) /\ Len(e.children) = 1

\* C13: for every element with children that is not a wrapper of a lone
\* child, the value is a Mapping whose last entries are the child tags in
\* first-seen order, after nothing but '@' keys and '#text'; a tag
\* occurring once maps to that child's value, a tag occurring n > 1 times
\* to the Sequence of the n values in document order, Nulls included.
C13_ChildGrouping ==
    LoadedXml =>
        \A e \in Subelements(ParsedRoot) :
            (e.children # <<>> /\ ~LoneChildWrapper(e)) =>
                LET v == element_to_dict(e)
                    entries == ChildEntries(e)
                    n == Len(Pay(v))
                    m == Len(entries)
                IN  /\ IsDict(v)
                    /\ n >= m
                    /\ SubSeq(Pay(v), n - m + 1, n) = entries
                    /\ \A i \in 1..(n - m) : SpecialKey(Pay(v)[i][1])

\* a loaded element with an attribute and text whose children are tagged
\* x, y, x, the first of them converting to Null
C13_Witness ==
    /\ LoadedXml
    /\ \E e \in Subelements(ParsedRoot) :
        /\ e.attrib # <<>>
        /\ HasText(e)
        /\ Len(e.children) = 3
        /\ e.children[1].tag = e.children[3].tag
        /\ e.children[1].tag # e.children[2].tag
        /\ element_to_dict(e.children[1]) = Null
        /\ Len(Pay(element_to_dict(e))) = 4

\* ------------------------------------------------------ where Null arises

\* the text of e has a character that is not whitespace
NonBlankText(e) ==
    /\ IsStr(e.text)
    /\ \E i \in 1..Len(Pay(e.text)) : Pay(e.text)[i] \notin Whitespace

\* C14 (as claimed): an element converts to Null only when it has no
\* attributes, no non-blank text and no child elements.
C14_NullOnlyFromEmpty ==
    LoadedXml =>
        \A e \in Subelements(ParsedRoot) :
            element_to_dict(e) = Null =>
                /\ e.attrib = <<>>
                /\ ~NonBlankText(e)
                /\ e.children = <<>>

\* C14 (amended): an element converts to Null only when it has no
\* attributes, no non-blank text, and either no child elements or exactly
\* one child element that itself converts to Null; an element with two
\* or more children never converts to Null.
C14_NullFromEmptyOrLoneNull ==
    LoadedXml =>
        \A e \in Subelements(ParsedRoot) :
            element_to_dict(e) = Null =>
                /\ e.attrib = <<>>
                /\ ~NonBlankText(e)
                /\ \/ e.children = <<>>
                   \/ /\ Len(e.children) = 1
                      /\ element_to_dict(e.children[1]) = Null

\* a loaded element with one child, itself empty, converted to Null, and
\* so did an element with no content at all
C14_Witness ==
    /\ LoadedXml
    /\ \E e \in Subelements(ParsedRoot) :
        /\ Len(e.children) = 1
        /\ e.children[1].children = <<>>
        /\ element_to_dict(e.children[1]) = Null
        /\ element_to_dict(e) = Null

\* ---------------------------------------------- no element is a Sequence

\* in the dict the grouping loop built from the first k children of e, a
\* list under a tag holds one value for each of two or more children
ListsAreGroups(e, k) ==
    LET seen == SubSeq(e.children, 1, k)
        children == GroupChildren(<<>>, seen)
    IN  \A i \in 1..Len(children) :
            IsList(children[i][2]) =>
                /\ Len(WithTag(seen, children[i][1])) > 1
                /\ Len(Pay(children[i][2])) = Len(WithTag(seen, children[i][1]))

\* C15: the value of an element is a String, a Mapping or Null, never a
\* Sequence; at every step of the grouping loop a list stored under a
\* child tag stands for a tag seen more than once, one item per child.
C15_ElementNeverSequence ==
    LoadedXml =>
        \A e \in Subelements(ParsedRoot) :
            /\ Tag(element_to_dict(e)) \in {"str", "map", "null"}
            /\ \A k \in 0..Len(e.children) : ListsAreGroups(e, k)

\* a loaded element whose only children are two or more of one tag: its
\* own value is a Mapping holding the list, and its parent stores that
\* Mapping as a single child's value
C15_Witness ==
    /\ LoadedXml
    /\ \E e \in Subelements(ParsedRoot) :
        \E i \in 1..Len(e.children) :
            LET child == e.children[i]
            IN  /\ child.attrib = <<>>
                /\ ~HasText(child)
                /\ Len(child.children) > 1
                /\ Len(FirstSeenTags(child.children)) = 1
                /\ IsDict(element_to_dict(child))
                /\ IsList(Pay(element_to_dict(child))[1][2])

\* ------------------------------------------------ the worker's signals

Terminal(signal) == signal[1] \in {"finished", "error"}

\* the signals of a run so far: progress values from 25, 50, 75, 100 in
\* rising order, a terminal signal only in the last place, and 100 only
\* in a run that went on to finished
SignalsInOrder ==
    /\ \A i \in 1..Len(signals) :
        /\ Terminal(signals[i]) => i = Len(signals)
        /\ ~Terminal(signals[i]) =>
                /\ signals[i][1] = "progress"
                /\ signals[i][2] \in {25, 50, 75, 100}
                /\ \A j \in 1..(i - 1) : signals[j][2] < signals[i][2]
    /\ (\E i \in 1..Len(signals) : signals[i] = Progress(100)) =>
            LastSignal = "finished"
    /\ LastSignal = "finished" =>
            signals = <<Progress(25), Progress(50), Progress(75), Progress(100),
                        Finished>>

\* a run that returned emitted its one terminal signal, and a run still
\* going has emitted none
OneTerminalSignal ==
    /\ pc = "run_end" => (signals # <<>> /\ Terminal(signals[Len(signals)]))
    /\ pc \in {"run_start", "run_load", "run_save"} =>
            \A i \in 1..Len(signals) : ~Terminal(signals[i])

\* from start_conversion until reset_ui the button is disabled
DisabledWhileConverting ==
    (inflight > 0 \/ queue # <<>> \/ dialog \in {"success", "error"}) => ~button

====
